---- MODULE Spec2Model ----
(***************************************************************************)
(* react-native-text-measure: the JS facade (index.js), the Android        *)
(* adapter (ReactNativeTextMeasureModule.java) and the iOS adapter         *)
(* (ReactNativeTextMeasure.m).                                             *)
(*                                                                         *)
(* Numbers.  Logical lengths (dp / pt) are held in quarters of a logical   *)
(* unit, so 14 dp is 56 and 13.75 dp is 55.  The device density is held    *)
(* in halves (2 = 1.0, 3 = 1.5, 4 = 2.0).  A logical length v at density   *)
(* dn is therefore exactly v * dn eighths of a physical pixel; physical    *)
(* lengths are held in eighths of a pixel ("sub-pixels").  On iOS the      *)
(* engine works in points: one point is 8 sub-units (density 2 halves).    *)
(* A returned number is an exact fraction <<numerator, denominator>>.      *)
(***************************************************************************)
EXTENDS Integers, Sequences, FiniteSets, TLC

VARIABLES
    linked,        \* NativeModules.ReactNativeTextMeasure is registered
    platform,      \* "android" | "ios"
    density,       \* DisplayMetrics.density, in halves
    sdkInt,        \* Build.VERSION.SDK_INT
    engineFault,   \* how the layout engine behaves in this environment
    request,       \* the (text, options) the caller is measuring with
    syncOutcome,   \* what the last blocking call did
    promises,      \* the promises handed out by the non-blocking calls
    queue,         \* background tasks not yet run
    history        \* every outcome a call has had, with its request

vars == <<linked, platform, density, sdkInt, engineFault, request,
          syncOutcome, promises, queue, history>>

env == <<linked, platform, density, sdkInt, engineFault>>

(***************************************************************************)
(* Bounds of the model.                                                    *)
(***************************************************************************)
MaxCalls == 2

(***************************************************************************)
(* Values that cross the JS / native boundary.                             *)
(***************************************************************************)
Absent      == [t |-> "absent"]
JsNull      == [t |-> "null"]
JsUndefined == [t |-> "undefined"]
Num(v)      == [t |-> "number", v |-> v]
Str(s)      == [t |-> "string", v |-> s]
Bool(b)     == [t |-> "boolean", v |-> b]

\* whole + quarters/4 logical units, in quarters
Dp(whole, quarters) == 4 * whole + quarters

Keys == {"fontSize", "fontFamily", "fontWeight", "fontStyle", "letterSpacing",
         "lineHeight", "maxWidth", "maxHeight", "numberOfLines",
         "includeFontPadding", "color"}

EmptyMap == [k \in Keys |-> Absent]

\* exact fractions
Frac(n, d)   == <<n, d>>
FracEq(a, b) == a[1] * b[2] = b[1] * a[2]
FracLeq(a, b) == a[1] * b[2] <= b[1] * a[2]
FracLt(a, b) == a[1] * b[2] < b[1] * a[2]
IsWhole(a)   == a[1] % a[2] = 0

Max(a, b) == IF a >= b THEN a ELSE b
Min(a, b) == IF a <= b THEN a ELSE b

(***************************************************************************)
(* The layout engines (StaticLayout, TextKit) are external.  They are      *)
(* modelled by a fixed-pitch font: every glyph, the space included,        *)
(* advances half the text size plus the letter spacing; ascent is 3/4 and  *)
(* descent 1/4 of the text size; lines break between words only, greedily. *)
(***************************************************************************)
RECURSIVE SplitWords(_, _, _)
SplitWords(s, i, cur) ==
    IF i > Len(s)
    THEN IF cur > 0 THEN <<cur>> ELSE <<>>
    ELSE IF s[i] = " "
         THEN (IF cur > 0 THEN <<cur>> ELSE <<>>) \o SplitWords(s, i + 1, 0)
         ELSE SplitWords(s, i + 1, cur + 1)

WordsOf(s) == SplitWords(s, 1, 0)

\* the glyph counts of the lines the words break into within `wrap`
RECURSIVE BreakLines(_, _, _, _, _)
BreakLines(ws, i, cur, adv, wrap) ==
    IF i > Len(ws)
    THEN IF cur > 0 THEN <<cur>> ELSE <<>>
    ELSE IF cur = 0
         THEN BreakLines(ws, i + 1, ws[i], adv, wrap)
         ELSE IF (cur + 1 + ws[i]) * adv <= wrap
              THEN BreakLines(ws, i + 1, cur + 1 + ws[i], adv, wrap)
              ELSE <<cur>> \o BreakLines(ws, i, 0, adv, wrap)

\* a heavy face (semibold and up) is a sixteenth of the text size wider
Advance(textSize, spacing, weight) ==
    Max((textSize \div 2) + spacing
        + (IF weight >= 600 THEN textSize \div 16 ELSE 0), 0)
Ascent(textSize)  == (3 * textSize) \div 4
Descent(textSize) == textSize \div 4

Take(s, n) == SubSeq(s, 1, Min(n, Len(s)))

RECURSIVE MaxOf(_)
MaxOf(s) == IF s = <<>> THEN 0 ELSE Max(Head(s), MaxOf(Tail(s)))

(***************************************************************************)
(* Android: ReactNativeTextMeasureModule.java                              *)
(***************************************************************************)
Integer_MAX_VALUE == 2147483647
VERSION_CODES_M   == 23

\* Math.round of a length in sub-pixels, in whole pixels
Math_round(x8) == (x8 + 4) \div 8

hasKey(map, key) == map[key].t # "absent"
isNull(map, key) == map[key].t = "null"

getFloat(map, key, def) ==
    IF hasKey(map, key) /\ ~isNull(map, key) THEN map[key].v ELSE def

\* (int) of the double: the whole part
getInt(map, key, def) ==
    IF hasKey(map, key) /\ ~isNull(map, key) THEN map[key].v \div 4 ELSE def

getBool(map, key, def) ==
    IF hasKey(map, key) /\ ~isNull(map, key) THEN map[key].v ELSE def

\* the String, or def (JsNull stands for Java null)
getString(map, key, def) ==
    IF hasKey(map, key) /\ ~isNull(map, key) THEN map[key] ELSE def

\* Integer.parseInt(weight.trim()) >= 600, false when it does not parse
numericWeightIsBold(weight) == weight.v \in {"600", "700", "800", "900"}

\* the font files of the host application and of the system
AssetFonts  == {"Custom", "Both"}
SystemFonts == {"serif", "Both"}

\* Typeface.createFromAsset(assets, "fonts/" + fontFamily + ".ttf"): a
\* RuntimeException when the application has no such file
createFromAsset(fontFamily) ==
    IF fontFamily \in AssetFonts
    THEN [threw |-> FALSE, family |-> fontFamily]
    ELSE [threw |-> TRUE]

\* Typeface.create(familyName, style): a name the system does not know
\* gives the default typeface, never null
Typeface_create(familyName, style) ==
    IF familyName.t # "null" /\ familyName.v \in SystemFonts
    THEN [threw |-> FALSE, family |-> familyName.v, from |-> "system",
          style |-> style]
    ELSE [threw |-> FALSE, family |-> "default", from |-> "default",
          style |-> style]

\* the asset lookup outside any try block: its exception leaves the method
resolveTypeface_NoCatch(fontFamily, style) ==
    IF fontFamily.t # "null" /\ fontFamily.v # ""
    THEN LET fromAssets == createFromAsset(fontFamily.v)
         IN  IF fromAssets.threw
             THEN [threw |-> TRUE, family |-> "none", from |-> "none",
                   style |-> style]
             ELSE [threw |-> FALSE, family |-> fromAssets.family,
                   from |-> "asset", style |-> style]
    ELSE Typeface_create(JsNull, style)

resolveTypeface(fontFamily, style) ==
    IF fontFamily.t # "null" /\ fontFamily.v # ""
    THEN LET fromAssets == createFromAsset(fontFamily.v)
         IN  IF ~fromAssets.threw
             THEN [threw |-> FALSE, family |-> fromAssets.family,
                   from |-> "asset", style |-> style]
             ELSE \* catch (Exception ignored): on to the system font name
                  Typeface_create(fontFamily, style)
    ELSE Typeface_create(JsNull, style)

\* options -> StyleConfig (step 1 of performMeasure)
AndroidParse(options) ==
    [fontSize       |-> getFloat(options, "fontSize", Dp(14, 0)),
     fontFamily     |-> getString(options, "fontFamily", JsNull),
     fontWeight     |-> getString(options, "fontWeight", Str("normal")),
     fontStyle      |-> getString(options, "fontStyle", Str("normal")),
     letterSpacing  |-> getFloat(options, "letterSpacing", 0),
     lineHeight     |-> getFloat(options, "lineHeight", 0),
     maxWidth       |-> getFloat(options, "maxWidth", 0),
     maxHeight      |-> getFloat(options, "maxHeight", 0),
     numberOfLines  |-> getInt(options, "numberOfLines", 0),
     includeFontPad |-> getBool(options, "includeFontPadding", TRUE)]

\* the conversion without the "0 means unbounded" test
maxWidthPx_ZeroCollapses(maxWidth) == Math_round(maxWidth * density)

\* dp -> px of the wrap width and of the height cap (step 2)
maxWidthPx(maxWidth) ==
    IF maxWidth > 0 THEN Math_round(maxWidth * density) ELSE Integer_MAX_VALUE

maxHeightPx(maxHeight) ==
    IF maxHeight > 0 THEN Math_round(maxHeight * density) ELSE Integer_MAX_VALUE

\* steps 3 and 4: the TextPaint
AndroidPaint(cfg) ==
    LET isBold   == cfg.fontWeight.v \in {"bold", "BOLD", "Bold"}
                    \/ numericWeightIsBold(cfg.fontWeight)
        isItalic == cfg.fontStyle.v \in {"italic", "ITALIC", "Italic"}
        typefaceStyle == IF isBold /\ isItalic THEN "BOLD_ITALIC"
                         ELSE IF isBold THEN "BOLD"
                         ELSE IF isItalic THEN "ITALIC" ELSE "NORMAL"
        fontSizePx == cfg.fontSize * density
    IN  [textSize |-> fontSizePx,
         typeface |-> resolveTypeface(cfg.fontFamily, typefaceStyle),
         \* em = letterSpacingPx / fontSizePx, as a fraction
         letterSpacing |-> IF cfg.letterSpacing # 0
                           THEN Frac(cfg.letterSpacing * density, fontSizePx)
                           ELSE Frac(0, 1)]

\* StaticLayout, the external engine: the lines it emits and its height
StaticLayoutEngine(text, paint, widthPx, spacingAdd, includePad, maxLines) ==
    LET weight  == IF paint.typeface.style \in {"BOLD", "BOLD_ITALIC"}
                   THEN 700 ELSE 400
        spacing == IF paint.letterSpacing[2] = 0 THEN 0
                   ELSE (paint.letterSpacing[1] * paint.textSize)
                            \div paint.letterSpacing[2]
        adv     == Advance(paint.textSize, spacing, weight)
        wrap    == IF widthPx = Integer_MAX_VALUE THEN widthPx ELSE 8 * widthPx
        broken  == BreakLines(WordsOf(text), 1, 0, adv, wrap)
        all     == IF broken = <<>> THEN <<0>> ELSE broken
        kept    == Take(all, maxLines)
        lineH   == Math_round(Ascent(paint.textSize))
                     + Math_round(Descent(paint.textSize))
                     + Math_round(spacingAdd)
        pad     == IF includePad THEN 2 * Math_round(paint.textSize \div 8) ELSE 0
    IN  [threw  |-> engineFault # "none",
         width  |-> widthPx,
         spacingAdd |-> spacingAdd,
         lines  |-> [i \in 1..Len(kept) |-> kept[i] * adv],
         height |-> Max(Len(kept) * lineH + pad, 0)]

buildStaticLayout(text, paint, widthPx, lineHeightPx, numberOfLines, includeFontPad) ==
    LET naturalLineHeight == Ascent(paint.textSize) + Descent(paint.textSize)
        spacingAdd == IF lineHeightPx > 0 THEN lineHeightPx - naturalLineHeight ELSE 0
    IN  IF sdkInt >= VERSION_CODES_M
        THEN StaticLayoutEngine(text, paint, widthPx, spacingAdd, includeFontPad,
                 IF numberOfLines > 0 THEN numberOfLines ELSE Integer_MAX_VALUE)
        ELSE \* the deprecated constructor takes no line limit
             StaticLayoutEngine(text, paint, widthPx, spacingAdd, includeFontPad,
                 Integer_MAX_VALUE)

\* steps 6 and 7 of performMeasure: the result map from the layout
AndroidResult(layout, heightCapPx) ==
    LET lineCount      == Len(layout.lines)
        measuredWidth  == MaxOf(layout.lines)
        measuredHeight == IF heightCapPx # Integer_MAX_VALUE
                             /\ layout.height > heightCapPx
                          THEN heightCapPx ELSE layout.height
    IN  [width     |-> Frac(measuredWidth, 4 * density),
         height    |-> Frac(8 * measuredHeight, 4 * density),
         lineCount |-> lineCount]

\* [ok |-> TRUE, map |-> result] or [ok |-> FALSE, message |-> e.getMessage()]
performMeasure(text, options) ==
    LET txt    == IF text.t = "null" THEN <<>> ELSE text.v
        opts   == IF options.t = "null" THEN EmptyMap ELSE options.v
        cfg    == AndroidParse(opts)
        paint  == AndroidPaint(cfg)
        layout == buildStaticLayout(txt, paint, maxWidthPx(cfg.maxWidth),
                      cfg.lineHeight * density, cfg.numberOfLines,
                      cfg.includeFontPad)
    IN  IF paint.typeface.threw
        THEN [ok |-> FALSE, message |-> Str("Font asset not found")]
        ELSE IF layout.threw
        THEN [ok |-> FALSE,
              message |-> IF engineFault = "message"
                          THEN Str("layout failed") ELSE JsNull]
        ELSE [ok |-> TRUE,
              map |-> AndroidResult(layout, maxHeightPx(cfg.maxHeight))]

\* the blocking method: what it returns to JS
Android_measureTextSync(text, options) ==
    LET r == performMeasure(text, options)
    IN  IF r.ok THEN r.map ELSE [error |-> r.message]

\* a failure swallowed and reported as an empty measurement
Android_measureText_ZeroOnFailure(text, options) ==
    LET r == performMeasure(text, options)
    IN  [state |-> "resolved",
         value |-> IF r.ok THEN r.map
                   ELSE [width |-> Frac(0, 1), height |-> Frac(0, 1), lineCount |-> 0]]

\* the non-blocking method: how it settles its promise
Android_measureText(text, options) ==
    LET r == performMeasure(text, options)
    IN  IF r.ok
        THEN [state |-> "resolved", value |-> r.map]
        ELSE [state |-> "rejected", code |-> "MEASURE_ERROR", message |-> r.message]

(***************************************************************************)
(* iOS: ReactNativeTextMeasure.m                                           *)
(***************************************************************************)
CGFLOAT_MAX == 2147483647

\* keys whose value is sent a message NSNull does not answer
\* (doubleValue, integerValue, length, isEqualToString:)
RNTMMessagedKeys == {"fontSize", "fontFamily", "fontStyle", "letterSpacing",
                     "lineHeight", "maxWidth", "maxHeight", "numberOfLines"}

\* options[key] ? [options[key] doubleValue] : def
RNTMDouble(options, key, def) ==
    IF options[key].t = "absent" THEN def ELSE options[key].v

\* options[key] ?: def
RNTMObject(options, key, def) ==
    IF options[key].t = "absent" THEN def ELSE options[key]

\* the registered families that have a bold face; for the others
\* fontDescriptorWithSymbolicTraits:UIFontDescriptorTraitBold gives nil
BoldFaces == {"serif", "Both"}

RNTMWeightMap(fontWeight) ==
    IF fontWeight.t = "string"
       /\ fontWeight.v \in {"100", "200", "300", "400", "500", "600", "700",
                            "800", "900", "bold", "normal"}
    THEN CASE fontWeight.v = "100" -> 100 [] fontWeight.v = "200" -> 200
           [] fontWeight.v = "300" -> 300 [] fontWeight.v = "400" -> 400
           [] fontWeight.v = "500" -> 500 [] fontWeight.v = "600" -> 600
           [] fontWeight.v = "700" -> 700 [] fontWeight.v = "800" -> 800
           [] fontWeight.v = "900" -> 900 [] fontWeight.v = "bold" -> 700
           [] fontWeight.v = "normal" -> 400
    ELSE 400

\* steps 1 to 3: the options read, the weight and the UIFont
RNTMParse(options) ==
    LET maxWidth   == RNTMDouble(options, "maxWidth", 0)
        maxHeight  == RNTMDouble(options, "maxHeight", 0)
        fontFamily == options["fontFamily"]
        weight     == RNTMWeightMap(RNTMObject(options, "fontWeight", Str("normal")))
        isItalic   == RNTMObject(options, "fontStyle", Str("normal")) = Str("italic")
        named      == fontFamily.t = "string" /\ fontFamily.v # ""
    IN  [fontSize      |-> RNTMDouble(options, "fontSize", Dp(14, 0)),
         letterSpacing |-> RNTMDouble(options, "letterSpacing", 0),
         lineHeight    |-> RNTMDouble(options, "lineHeight", 0),
         maxWidth      |-> IF maxWidth <= 0 THEN CGFLOAT_MAX ELSE maxWidth,
         maxHeight     |-> IF maxHeight <= 0 THEN CGFLOAT_MAX ELSE maxHeight,
         maxLines      |-> RNTMDouble(options, "numberOfLines", 0) \div 4,
         \* fontWithDescriptor: gives a font for any name, a stand-in
         \* face when the name is not a registered one
         font |-> [family |-> IF named
                              THEN (IF fontFamily.v \in AssetFonts \cup SystemFonts
                                    THEN fontFamily.v ELSE "Helvetica")
                              ELSE "system",
                   \* a named family takes the bold trait only, from
                   \* UIFontWeightBold up, and keeps its descriptor when
                   \* the trait cannot be satisfied
                   weight |-> IF named
                              THEN (IF weight >= 700 /\ fontFamily.v \in BoldFaces
                                    THEN 700 ELSE 400)
                              ELSE weight,
                   italic |-> isItalic]]

\* points (in quarters) to the engine's sub-units; the sentinel stays itself
RNTMSub(v) == IF v = CGFLOAT_MAX THEN CGFLOAT_MAX ELSE 2 * v

\* TextKit, the external engine: the line fragments laid out in the container
TextKitEngine(text, cfg) ==
    LET textSize == 2 * cfg.fontSize
        adv      == Advance(textSize, 2 * cfg.letterSpacing, cfg.font.weight)
        broken   == BreakLines(WordsOf(text), 1, 0, adv, RNTMSub(cfg.maxWidth))
        lineH    == IF cfg.lineHeight > 0 THEN 2 * cfg.lineHeight
                    ELSE Ascent(textSize) + Descent(textSize)
        limited  == IF cfg.maxLines > 0 THEN Take(broken, cfg.maxLines) ELSE broken
        fitting  == IF cfg.maxHeight = CGFLOAT_MAX \/ lineH = 0 THEN Len(limited)
                    ELSE RNTMSub(cfg.maxHeight) \div lineH
        kept     == Take(limited, fitting)
    IN  [threw    |-> engineFault # "none",
         container |-> [width |-> cfg.maxWidth, height |-> cfg.maxHeight],
         lines    |-> [i \in 1..Len(kept) |-> kept[i] * adv],
         usedRect |-> [width  |-> MaxOf([i \in 1..Len(kept) |-> kept[i] * adv]),
                       height |-> Len(kept) * lineH]]

\* ceil of a length in sub-units, in whole points
ceil(x8) == (x8 + 7) \div 8

\* RNTMPerformMeasure from the attributed string on
\* [ok |-> TRUE, map |-> result] or [ok |-> FALSE, reason |-> exception.reason]
RNTMMeasureString(safeText, options) ==
    IF \E k \in RNTMMessagedKeys : options[k].t = "null"
    THEN [ok |-> FALSE, reason |-> Str("unrecognized selector sent to instance")]
    ELSE LET layout == TextKitEngine(safeText, RNTMParse(options))
         IN  IF layout.threw
             THEN [ok |-> FALSE,
                   reason |-> IF engineFault = "message"
                              THEN Str("layout failed") ELSE JsNull]
             ELSE [ok |-> TRUE,
                   map |-> [width     |-> Frac(ceil(layout.usedRect.width), 1),
                            height    |-> Frac(ceil(layout.usedRect.height), 1),
                            lineCount |-> Len(layout.lines)]]

\* initWithString:text without the safeText guard: a nil string raises
RNTMPerformMeasure_NoSafeText(text, options) ==
    IF text.t = "null"
    THEN [ok |-> FALSE, reason |-> Str("nil argument")]
    ELSE RNTMMeasureString(text.v, options)

RNTMPerformMeasure(text, options) ==
    RNTMMeasureString(IF text.t = "null" THEN <<>> ELSE text.v, options)

\* the blocking method: what it returns to JS
iOS_measureTextSync(text, options) ==
    LET r == RNTMPerformMeasure(IF text.t = "null" THEN Str(<<>>) ELSE text,
                                IF options.t = "null" THEN EmptyMap ELSE options.v)
    IN  IF r.ok THEN r.map
        ELSE [error |-> IF r.reason.t = "null" THEN Str("Unknown error") ELSE r.reason]

\* the dispatched block without its @catch: an exception ends the block
\* and neither resolve nor reject is called
iOS_measureText_NoCatch(text, options) ==
    LET r == RNTMPerformMeasure(text,
                                IF options.t = "null" THEN EmptyMap ELSE options.v)
    IN  IF r.ok
        THEN [state |-> "resolved", value |-> r.map]
        ELSE [state |-> "pending", text |-> text, options |-> options]

\* the block dispatched by the non-blocking method: how it settles the promise
iOS_measureText(text, options) ==
    LET r == RNTMPerformMeasure(text,
                                IF options.t = "null" THEN EmptyMap ELSE options.v)
    IN  IF r.ok
        THEN [state |-> "resolved", value |-> r.map]
        ELSE [state |-> "rejected", code |-> "MEASURE_ERROR", message |-> r.reason]

(***************************************************************************)
(* The JS facade: index.js                                                 *)
(***************************************************************************)
LINKING_ERROR == "react-native-text-measure: Native module not found."
TypeError     == "TypeError: Cannot convert undefined or null to object"

Map(m) == [t |-> "map", v |-> m]

\* String(text)
String(text) ==
    CASE text.t = "null"      -> Str(<<"n", "u", "l", "l">>)
      [] text.t = "undefined" -> Str(<<"u", "n", "d", "e", "f", "i", "n", "e", "d">>)
      [] OTHER                -> text

\* a fresh object holding the entries whose value is neither undefined nor null
sanitize(options) ==
    [k \in Keys |-> IF options[k].t \in {"undefined", "null"}
                    THEN Absent ELSE options[k]]

\* what the call-marshalling layer hands the native method for a JS argument:
\* undefined and null arrive as nil / null, an undefined entry is not sent
MarshalText(text) == IF text.t \in {"undefined", "null"} THEN JsNull ELSE text

MarshalOptions(options) ==
    IF options.t \in {"undefined", "null"} THEN JsNull
    ELSE Map([k \in Keys |-> IF options.v[k].t = "undefined"
                             THEN Absent ELSE options.v[k]])

\* a module that keeps its last result and hands it out again
NativeSync_KeepsLastResult(text, options) ==
    IF syncOutcome.kind = "return" THEN syncOutcome.value
    ELSE IF platform = "android"
    THEN Android_measureTextSync(MarshalText(text), MarshalOptions(options))
    ELSE iOS_measureTextSync(MarshalText(text), MarshalOptions(options))

\* the registered module's blocking method
NativeSync(text, options) ==
    IF platform = "android"
    THEN Android_measureTextSync(MarshalText(text), MarshalOptions(options))
    ELSE iOS_measureTextSync(MarshalText(text), MarshalOptions(options))

\* the registered module's non-blocking method, once its task runs
NativeAsync(text, options) ==
    IF platform = "android"
    THEN Android_measureText(MarshalText(text), MarshalOptions(options))
    ELSE iOS_measureText(MarshalText(text), MarshalOptions(options))

\* NativeModules.ReactNativeTextMeasure used without the Proxy fallback
NativeTextMeasure_NoProxy == "module"

\* NativeTextMeasure.<name>: the module's method, or the Proxy's get trap throws
NativeTextMeasure == IF linked THEN "module" ELSE "throws"

\* the arguments the facade passes on, or the error it throws on the way:
\* the property is read first, then String(text), then sanitize(options)
FacadeCall(text, options) ==
    IF NativeTextMeasure = "throws"
    THEN [kind |-> "throw", error |-> LINKING_ERROR]
    ELSE IF options.t = "null"
         THEN [kind |-> "throw", error |-> TypeError]
         ELSE [kind |-> "call",
               text |-> String(text),
               options |-> Map(sanitize(IF options.t = "undefined"
                                        THEN EmptyMap ELSE options.v))]

(***************************************************************************)
(* The requests the model measures.                                        *)
(***************************************************************************)
Texts == {Str(<<>>), Str(<<"a", "a", " ", "a", " ", "a", "a">>), JsNull, JsUndefined}

With1(k, v) == [EmptyMap EXCEPT ![k] = v]

\* one key at a time: null, undefined, and the explicit zero / false / ""
NullishMaps ==
    {With1(k, v) : k \in Keys, v \in {JsNull, JsUndefined}}
    \cup {With1(k, Num(0)) : k \in {"fontSize", "letterSpacing", "lineHeight",
                                    "maxWidth", "maxHeight", "numberOfLines"}}
    \cup {With1(k, Str("")) : k \in {"fontFamily", "fontWeight", "fontStyle"}}
    \cup {With1("includeFontPadding", Bool(FALSE)), With1("color", Str("red"))}

WidthValues  == {Absent, Num(Dp(27, 3)), Num(Dp(14, 0))}
HeightValues == {Absent, Num(Dp(20, 0)), Num(Dp(10, 1))}
LineValues   == {Absent, Num(Dp(1, 0)), Num(Dp(2, 0))}

\* wrap width x height cap x line limit
BoxMaps ==
    {[EmptyMap EXCEPT !["maxWidth"] = w, !["maxHeight"] = h, !["numberOfLines"] = n] :
        w \in WidthValues, h \in HeightValues, n \in LineValues}

\* explicit line height, with and without font padding and a line limit
LineHeightMaps ==
    {[EmptyMap EXCEPT !["lineHeight"] = Num(Dp(20, 0)), !["maxWidth"] = Num(Dp(14, 0)),
                      !["includeFontPadding"] = p, !["numberOfLines"] = n] :
        p \in {Absent, Bool(FALSE)}, n \in {Absent, Num(Dp(2, 0))}}

\* the font
FontMaps ==
    {With1("fontSize", Num(Dp(15, 0))), With1("letterSpacing", Num(Dp(0, 1))),
     With1("fontWeight", Str("bold")), With1("fontWeight", Str("900")),
     With1("fontStyle", Str("italic")), With1("fontFamily", Str("Custom")),
     With1("fontFamily", Str("serif")), With1("fontFamily", Str("Nope")),
     With1("fontFamily", Str("Both")),
     [EmptyMap EXCEPT !["fontSize"] = Num(Dp(15, 0)), !["maxWidth"] = Num(Dp(22, 3))]}

\* weights, alone and on a named family
WeightMaps ==
    {[EmptyMap EXCEPT !["fontWeight"] = Str(w), !["fontFamily"] = f] :
        w \in {"100", "500", "600", "700", "900", "bold", "normal"},
        f \in {Absent, Str("Custom"), Str("serif")}}

\* a wrap width and a height cap below half a pixel
TinyBoxMaps ==
    {With1("maxWidth", Num(Dp(0, 1))), With1("maxHeight", Num(Dp(0, 1)))}

OptionMaps == NullishMaps \cup BoxMaps \cup LineHeightMaps \cup FontMaps
                  \cup WeightMaps \cup TinyBoxMaps

JsOptions == {Map(m) : m \in OptionMaps} \cup {JsNull, JsUndefined}

Requests == [text : Texts, options : JsOptions, via : {"facade", "native"}]

Densities == {2, 3}
SdkInts   == {22, 23}

(***************************************************************************)
(* The state machine.                                                      *)
(***************************************************************************)
Init ==
    /\ linked \in BOOLEAN
    /\ platform \in {"android", "ios"}
    /\ density \in Densities
    /\ sdkInt \in SdkInts
    /\ engineFault \in {"none", "message", "nomessage"}
    \* iOS measures in points and has no SDK level
    /\ platform = "ios" => density = 2 /\ sdkInt = 23
    \* without the module no native code runs
    /\ ~linked => density = 2 /\ sdkInt = 23 /\ engineFault = "none"
    /\ request \in Requests
    /\ ~linked => request.via = "facade"
    /\ syncOutcome = [kind |-> "none"]
    /\ promises = <<>>
    /\ queue = <<>>
    /\ history = {}

\* the outcome of a call, as the caller saw it
Outcome(of, mode, outcome) == [request |-> of, mode |-> mode, outcome |-> outcome]

\* index.js measureTextSync(text, options)
measureTextSync ==
    /\ request.via = "facade"
    /\ LET c == FacadeCall(request.text, request.options)
       IN  syncOutcome' =
               IF c.kind = "throw" THEN c
               ELSE [kind |-> "return", value |-> NativeSync(c.text, c.options)]
    /\ history' = history \cup {Outcome(request, "sync", syncOutcome')}
    /\ UNCHANGED <<env, request, promises, queue>>

\* index.js measureText(text, options): returns the pending promise at once
measureText ==
    /\ request.via = "facade"
    /\ Len(promises) < MaxCalls
    /\ LET c == FacadeCall(request.text, request.options)
       IN  IF c.kind = "throw"
           THEN /\ promises' = Append(promises, [state |-> "threw", error |-> c.error])
                /\ queue' = queue
                /\ history' = history \cup
                       {Outcome(request, "async", [state |-> "threw", error |-> c.error])}
           ELSE /\ promises' = Append(promises, [state |-> "pending", of |-> request,
                                                 text |-> c.text, options |-> c.options])
                /\ queue' = Append(queue, Len(promises) + 1)
                /\ history' = history
    /\ UNCHANGED <<env, request, syncOutcome>>

\* NativeModules.ReactNativeTextMeasure.measureTextSync called directly
DirectMeasureTextSync ==
    /\ request.via = "native"
    /\ linked
    /\ syncOutcome' = [kind |-> "return",
                       value |-> NativeSync(request.text, request.options)]
    /\ history' = history \cup {Outcome(request, "sync", syncOutcome')}
    /\ UNCHANGED <<env, request, promises, queue>>

\* NativeModules.ReactNativeTextMeasure.measureText called directly
DirectMeasureText ==
    /\ request.via = "native"
    /\ linked
    /\ Len(promises) < MaxCalls
    /\ promises' = Append(promises, [state |-> "pending", of |-> request,
                                     text |-> request.text,
                                     options |-> request.options])
    /\ queue' = Append(queue, Len(promises) + 1)
    /\ UNCHANGED <<env, request, syncOutcome, history>>

Remove(q, i) == SubSeq(q, 1, i - 1) \o SubSeq(q, i + 1, Len(q))

\* a queued task runs: the native modules thread takes them in order on
\* Android, the global concurrent queue in any order on iOS
RunTask ==
    \E i \in 1..Len(queue) :
        /\ platform = "android" => i = 1
        /\ LET p == queue[i]
           IN  /\ promises' = [promises EXCEPT
                      ![p] = NativeAsync(promises[p].text, promises[p].options)]
               /\ history' = history \cup
                      {Outcome(promises[p].of, "async", promises'[p])}
        /\ queue' = Remove(queue, i)
        /\ UNCHANGED <<env, request, syncOutcome>>

Next ==
    \/ measureTextSync
    \/ measureText
    \/ DirectMeasureTextSync
    \/ DirectMeasureText
    \/ RunTask

Spec == Init /\ [][Next]_vars

(***************************************************************************)
(* A caller that goes from one request to another and back, on one         *)
(* device.                                                                 *)
(***************************************************************************)
RepeatRequests ==
    {[text |-> Str(<<"a", "a", " ", "a", " ", "a", "a">>),
      options |-> Map(With1("maxWidth", Num(Dp(14, 0)))), via |-> "facade"],
     [text |-> Str(<<"a", "a", " ", "a", " ", "a", "a">>),
      options |-> Map(With1("fontSize", Num(Dp(15, 0)))), via |-> "native"],
     [text |-> JsNull, options |-> JsNull, via |-> "facade"]}

InitRepeat ==
    /\ Init
    /\ linked /\ density = 2 /\ sdkInt = 23
    /\ request \in RepeatRequests

\* every device and engine behaviour, one of these requests
InitFair == Init /\ request \in RepeatRequests

\* a task leaves the queue; of the steps of Next these are the RunTask steps
TaskTaken ==
    \E i \in 1..Len(queue) :
        /\ platform = "android" => i = 1
        /\ queue' = Remove(queue, i)

\* the native modules thread and the global dispatch queue run every task
\* handed to them
FairSpec == InitFair /\ [][Next]_vars /\ WF_queue(TaskTaken)

\* the caller turns to another (text, options)
NewRequest ==
    /\ request' \in RepeatRequests \ {request}
    /\ UNCHANGED <<env, syncOutcome, promises, queue, history>>

NextRepeat == Next \/ NewRequest

SpecRepeat == InitRepeat /\ [][NextRepeat]_vars

(***************************************************************************)
(* What the request looks like at the native boundary.                     *)
(***************************************************************************)
ReachesNative ==
    linked /\ (request.via = "facade"
                  => FacadeCall(request.text, request.options).kind = "call")

ArgText ==
    IF request.via = "facade"
    THEN FacadeCall(request.text, request.options).text ELSE request.text

ArgOptions ==
    IF request.via = "facade"
    THEN FacadeCall(request.text, request.options).options ELSE request.options

EffText == MarshalText(ArgText)

EffMap ==
    LET o == MarshalOptions(ArgOptions) IN IF o.t = "null" THEN EmptyMap ELSE o.v

\* the number given for a key, 0 when there is none
Given(key) == IF EffMap[key].t = "number" THEN EffMap[key].v ELSE 0

Returned  == syncOutcome.kind = "return"
Succeeded == Returned /\ "error" \notin DOMAIN syncOutcome.value

Settled(i) == promises[i].state \in {"resolved", "rejected"}

\* the shared routine fails on this request
RoutineFails ==
    /\ ReachesNative
    /\ IF platform = "android"
       THEN ~performMeasure(EffText, Map(EffMap)).ok
       ELSE ~RNTMPerformMeasure(EffText, EffMap).ok

\* the message of that failure
FailureMessage ==
    IF platform = "android"
    THEN performMeasure(EffText, Map(EffMap)).message
    ELSE RNTMPerformMeasure(EffText, EffMap).reason

\* the blocking result of the same request with one option left out
Without(key) == NativeSync(ArgText, Map([EffMap EXCEPT ![key] = Absent]))

(***************************************************************************)
(* C1: with maxHeight = H > 0 and a natural height above H, the returned   *)
(* height is exactly H, and lineCount and width are those of the           *)
(* unclamped layout.                                                       *)
(***************************************************************************)
C1_ClampedHeightIsExactlyH ==
    (Succeeded /\ Given("maxHeight") > 0
        /\ FracLt(Frac(Given("maxHeight"), 4), Without("maxHeight").height))
    => /\ FracEq(syncOutcome.value.height, Frac(Given("maxHeight"), 4))
       /\ syncOutcome.value.lineCount = Without("maxHeight").lineCount
       /\ syncOutcome.value.width = Without("maxHeight").width

(***************************************************************************)
(* C2: on the same input the non-blocking call resolves exactly when the   *)
(* blocking call returns a result, and with the same value; a call that    *)
(* throws in the facade throws the same error on both entry points.        *)
(***************************************************************************)
C2_SyncAndAsyncAgree ==
    \A i \in 1..Len(promises) :
        /\ (Settled(i) /\ Returned)
              => /\ promises[i].state = "resolved" <=> Succeeded
                 /\ promises[i].state = "resolved"
                       => promises[i].value = syncOutcome.value
        /\ (promises[i].state = "threw" /\ syncOutcome.kind # "none")
              => /\ syncOutcome.kind = "throw"
                 /\ syncOutcome.error = promises[i].error
        /\ syncOutcome.kind = "throw" => promises[i].state = "threw"

\* both entry points measured a null text with null options at the boundary
C2_Witness ==
    /\ request.via = "native" /\ request.text = JsNull /\ request.options = JsNull
    /\ Succeeded
    /\ \E i \in 1..Len(promises) : promises[i].state = "resolved"

(***************************************************************************)
(* C3: when the shared routine fails inside measureTextSync, the call      *)
(* returns an object whose only field is `error`, holding a string, also   *)
(* when the exception has no message.                                      *)
(***************************************************************************)
C3_SyncFailureIsErrorString ==
    (Returned /\ RoutineFails)
    => /\ DOMAIN syncOutcome.value = {"error"}
       /\ syncOutcome.value.error.t = "string"

(***************************************************************************)
(* C4: when the shared routine fails inside measureText, the promise is    *)
(* rejected with code MEASURE_ERROR and the failure's message and is not   *)
(* resolved, in particular not with a zero-sized result.                   *)
(***************************************************************************)
C4_AsyncFailureRejects ==
    \A i \in 1..Len(promises) :
        (promises[i].state \in {"resolved", "rejected"} /\ RoutineFails)
        => /\ promises[i].state = "rejected"
           /\ promises[i].code = "MEASURE_ERROR"
           /\ promises[i].message = FailureMessage

\* a failing layout has been reported through a promise
C4_Witness ==
    /\ RoutineFails
    /\ \E i \in 1..Len(promises) : promises[i].state = "rejected"

(***************************************************************************)
(* C5: a key given as null or undefined normalises like the key omitted:   *)
(* the normalised StyleConfig of the request equals that of the request    *)
(* with its null entries left out, and an absent key takes the documented  *)
(* default.                                                                *)
(***************************************************************************)
StripNulls(map) == [k \in Keys |-> IF map[k].t = "null" THEN Absent ELSE map[k]]

NormaliseThrows(map) ==
    platform = "ios" /\ \E k \in RNTMMessagedKeys : map[k].t = "null"

Normalised(map) == IF platform = "android" THEN AndroidParse(map) ELSE RNTMParse(map)

C5_NullIsAbsent ==
    Returned
    => /\ ~NormaliseThrows(EffMap)
       /\ Normalised(EffMap) = Normalised(StripNulls(EffMap))
       /\ syncOutcome.value = NativeSync(ArgText, Map(StripNulls(EffMap)))

(***************************************************************************)
(* C6: with maxWidth (maxHeight) 0 or absent the wrap width (height cap)   *)
(* is the engine's maximum value, never 0, and the height is not clamped.  *)
(***************************************************************************)
AndroidLayoutOf(map) ==
    LET cfg == AndroidParse(map)
    IN  buildStaticLayout(IF EffText.t = "null" THEN <<>> ELSE EffText.v,
            AndroidPaint(cfg), maxWidthPx(cfg.maxWidth), cfg.lineHeight * density,
            cfg.numberOfLines, cfg.includeFontPad)

IosLayoutOf(map) ==
    TextKitEngine(IF EffText.t = "null" THEN <<>> ELSE EffText.v, RNTMParse(map))

WrapWidthUsed ==
    IF platform = "android" THEN AndroidLayoutOf(EffMap).width
    ELSE IosLayoutOf(EffMap).container.width

HeightCapUsed ==
    IF platform = "android" THEN maxHeightPx(AndroidParse(EffMap).maxHeight)
    ELSE IosLayoutOf(EffMap).container.height

Unbounded == IF platform = "android" THEN Integer_MAX_VALUE ELSE CGFLOAT_MAX

\* the height of the layout as the engine reports it, in logical units
EngineHeight ==
    IF platform = "android"
    THEN Frac(8 * AndroidLayoutOf(EffMap).height, 4 * density)
    ELSE Frac(ceil(IosLayoutOf(EffMap).usedRect.height), 1)

C6_ZeroMeansUnbounded ==
    Succeeded
    => /\ Given("maxWidth") <= 0 => WrapWidthUsed = Unbounded /\ WrapWidthUsed # 0
       /\ Given("maxHeight") <= 0
             => /\ HeightCapUsed = Unbounded /\ HeightCapUsed # 0
                /\ syncOutcome.value.height = EngineHeight

\* a text measured with maxWidth and maxHeight given as an explicit 0
C6_Witness ==
    /\ Succeeded
    /\ EffMap["maxWidth"] = Num(0) \/ EffMap["maxHeight"] = Num(0)
    /\ ArgText.t = "string" /\ Len(ArgText.v) > 0
    /\ syncOutcome.value.lineCount = 1

(***************************************************************************)
(* C7: with numberOfLines = N > 0 the reported lineCount is at most N,     *)
(* and is N when the text lays out to more than N lines without the limit. *)
(***************************************************************************)
C7_LineCountRespectsLimit ==
    LET n == Given("numberOfLines") \div 4
    IN  (Succeeded /\ n > 0)
        => /\ syncOutcome.value.lineCount <= n
           /\ Without("numberOfLines").lineCount > n
                 => syncOutcome.value.lineCount = n

(***************************************************************************)
(* C8: width is the widest line in logical units rounded up to a whole     *)
(* unit, height is rounded up likewise: both are whole numbers.            *)
(***************************************************************************)
CeilFrac(f) == Frac((f[1] + f[2] - 1) \div f[2], 1)

WidestLine ==
    IF platform = "android"
    THEN Frac(MaxOf(AndroidLayoutOf(EffMap).lines), 4 * density)
    ELSE Frac(MaxOf(IosLayoutOf(EffMap).lines), 8)

C8_WidthAndHeightRoundedUp ==
    Succeeded
    => /\ FracEq(syncOutcome.value.width, CeilFrac(WidestLine))
       /\ IsWhole(syncOutcome.value.width)
       /\ IsWhole(syncOutcome.value.height)

(***************************************************************************)
(* C9: with maxWidth = W > 0 and every word of the text no wider than W,   *)
(* the returned width is at most W.                                        *)
(***************************************************************************)
\* the widest word of the text, in logical units
WidestWord ==
    LET words == WordsOf(IF EffText.t = "null" THEN <<>> ELSE EffText.v)
    IN  IF platform = "android"
        THEN LET lay == StaticLayoutEngine(<<"a">>, AndroidPaint(AndroidParse(EffMap)),
                            Integer_MAX_VALUE, 0, FALSE, Integer_MAX_VALUE)
             IN  Frac(MaxOf(words) * lay.lines[1], 4 * density)
        ELSE LET lay == TextKitEngine(<<"a">>,
                            [RNTMParse(EffMap) EXCEPT !.maxWidth = CGFLOAT_MAX,
                                                      !.maxHeight = CGFLOAT_MAX,
                                                      !.maxLines = 0])
             IN  Frac(MaxOf(words) * lay.lines[1], 8)

C9_WidthWithinMaxWidth ==
    (Succeeded /\ Given("maxWidth") > 0
        /\ FracLeq(WidestWord, Frac(Given("maxWidth"), 4)))
    => FracLeq(syncOutcome.value.width, Frac(Given("maxWidth"), 4))

(***************************************************************************)
(* C10: without the native module every call of measureText and of         *)
(* measureTextSync throws the linking error; none returns a measurement,   *)
(* an `error` object or a promise.                                         *)
(***************************************************************************)
C10_UnlinkedCallsThrowLinkingError ==
    ~linked
    => /\ syncOutcome.kind # "return"
       /\ syncOutcome.kind = "throw" => syncOutcome.error = LINKING_ERROR
       /\ \A i \in 1..Len(promises) :
             promises[i] = [state |-> "threw", error |-> LINKING_ERROR]

\* both entry points have been called without the module
C10_Witness ==
    /\ ~linked
    /\ syncOutcome.kind = "throw"
    /\ Len(promises) > 0
    /\ request.options = JsNull

(***************************************************************************)
(* C11: the typeface is the bundled asset when the application has one of  *)
(* that name, otherwise the system family of that name, otherwise the      *)
(* platform default; resolution never raises, so for a fontFamily that is  *)
(* absent, empty, unknown or whose asset lookup throws, with any weight    *)
(* and style, the measurement fails only when the layout engine does.      *)
(***************************************************************************)
FontFamilyGiven ==
    IF EffMap["fontFamily"].t = "string" THEN EffMap["fontFamily"].v ELSE ""

\* no option value that iOS would message as NSNull (C5's failure)
NoNSNull == platform = "ios" => \A k \in RNTMMessagedKeys : EffMap[k].t # "null"

ResolvedTypeface == AndroidPaint(AndroidParse(EffMap)).typeface

FontWeightGiven ==
    IF EffMap["fontWeight"].t = "string" THEN EffMap["fontWeight"].v ELSE "normal"

\* the weight the font resolved for these options carries
ResolvedTier(map) ==
    IF platform = "android"
    THEN IF AndroidPaint(AndroidParse(map)).typeface.style \in {"BOLD", "BOLD_ITALIC"}
         THEN 700 ELSE 400
    ELSE RNTMParse(map).font.weight

WithWeight(w) == [EffMap EXCEPT !["fontWeight"] = Str(w)]

NumericWeights == {"100", "200", "300", "400", "500", "600", "700", "800", "900"}

WeightNumber(w) ==
    CASE w = "100" -> 100 [] w = "200" -> 200 [] w = "300" -> 300
      [] w = "400" -> 400 [] w = "500" -> 500 [] w = "600" -> 600
      [] w = "700" -> 700 [] w = "800" -> 800 [] w = "900" -> 900

\* Typeface styles and symbolic traits know regular and bold; the system
\* font of iOS has all nine weights
TiersOffered ==
    IF platform = "ios" /\ FontFamilyGiven = ""
    THEN {WeightNumber(w) : w \in NumericWeights} ELSE {400, 700}

Distance(a, b) == IF a >= b THEN a - b ELSE b - a

Nearest(n, tiers) ==
    CHOOSE t \in tiers : \A u \in tiers : Distance(n, t) <= Distance(n, u)

C12_WeightMapsToNearestTier ==
    (Succeeded /\ ReachesNative)
    => /\ FontWeightGiven \in NumericWeights
             => ResolvedTier(EffMap)
                   = Nearest(WeightNumber(FontWeightGiven), TiersOffered)
       /\ FontWeightGiven = "bold"
             => ResolvedTier(EffMap) = ResolvedTier(WithWeight("700"))
       /\ FontWeightGiven = "normal"
             => ResolvedTier(EffMap) = ResolvedTier(WithWeight("400"))
       /\ FontWeightGiven \in {"900", "bold"}
             => /\ ResolvedTier(EffMap) >= 700
                /\ ResolvedTier(EffMap) > ResolvedTier(WithWeight("normal"))

(***************************************************************************)
(* C13: with lineHeight L > 0 the extra line spacing handed to the engine  *)
(* is L minus the natural line height of the font (multiplier 1) on both   *)
(* layout-building paths, and every line, the last included, is L high:    *)
(* with numberOfLines N > 0 and a text of at least N lines the returned    *)
(* height is N x L within rounding, whatever includeFontPadding is; with   *)
(* no line limit it is lineCount x L.  With lineHeight 0 or absent no      *)
(* extra spacing is applied.                                               *)
(***************************************************************************)
\* at most n logical units apart: the engine rounds the ascent, the
\* descent and the spacing of each line to whole pixels
WithinRounding(a, b, n) ==
    /\ FracLeq(a, Frac(b[1] + n * b[2], b[2]))
    /\ FracLeq(b, Frac(a[1] + n * a[2], a[2]))

NaturalLineHeightPx ==
    LET textSize == AndroidPaint(AndroidParse(EffMap)).textSize
    IN  Ascent(textSize) + Descent(textSize)

\* the number of lines the claim counts at L each
LinesAtL ==
    IF Given("numberOfLines") > 0 THEN Given("numberOfLines") \div 4
    ELSE syncOutcome.value.lineCount

C13_LineHeightIsExact ==
    (Succeeded /\ ReachesNative /\ Given("maxHeight") = 0)
    => /\ platform = "android"
             => AndroidLayoutOf(EffMap).spacingAdd =
                   IF Given("lineHeight") > 0
                   THEN Given("lineHeight") * density - NaturalLineHeightPx
                   ELSE 0
       /\ (/\ Given("lineHeight") > 0
           /\ Without("numberOfLines").lineCount >= LinesAtL)
             => WithinRounding(syncOutcome.value.height,
                               Frac(LinesAtL * Given("lineHeight"), 4), LinesAtL)

(***************************************************************************)
(* C16: for every maxWidth > 0 and maxHeight > 0, however small and at     *)
(* every density, the wrap width and the height cap in physical units are  *)
(* strictly positive.                                                      *)
(***************************************************************************)
C16_PositiveBoundsStayPositive ==
    (Succeeded /\ ReachesNative)
    => /\ Given("maxWidth") > 0 => WrapWidthUsed > 0
       /\ Given("maxHeight") > 0 => HeightCapUsed > 0

(***************************************************************************)
(* C14: a measurement leaves nothing behind: after any sequence of calls,  *)
(* with the same or other inputs, blocking or not, run in any order, a     *)
(* call with a given (text, options) has the outcome the first call with   *)
(* that input had, and no call changes the caller's text and options.      *)
(***************************************************************************)
GaveResult(h) ==
    IF h.mode = "sync"
    THEN h.outcome.kind = "return" /\ "error" \notin DOMAIN h.outcome.value
    ELSE h.outcome.state = "resolved"

SameOutcome(g, h) ==
    /\ g.mode = h.mode => g.outcome = h.outcome
    /\ GaveResult(g) <=> GaveResult(h)
    /\ GaveResult(g) => g.outcome.value = h.outcome.value

Pending(i) == Len(promises) >= i /\ promises[i].state = "pending"

C15_EveryPromiseSettlesOnce ==
    /\ \A i \in 1..MaxCalls : Pending(i) ~> (Len(promises) >= i /\ Settled(i))
    /\ [][/\ \A i \in 1..Len(promises) :
               promises[i].state # "pending" => promises'[i] = promises[i]
          /\ Len(promises') > Len(promises)
               => promises'[Len(promises')].state \in {"pending", "threw"}]_vars

\* two calls in flight, the second settled before the first
C15_Witness ==
    /\ Len(promises) = 2
    /\ promises[1].state = "pending"
    /\ Settled(2)

====
